---- MODULE Spec2Model ----
(***************************************************************************)
(* The request handlers of the Task List API (app/routes.py): the Entity   *)
(* Store (tasks and goals), the Object Resolver validate_object, the Sort  *)
(* Selector ordered_*_query, the Notifier post_to_slack and the fourteen   *)
(* endpoints.  One request is handled at a time: a handler action takes    *)
(* the server from idle to a state holding the request, its response and   *)
(* the effects it performed, and Respond returns it to idle.               *)
(***************************************************************************)
EXTENDS Integers, Sequences, FiniteSets, TLC

VARIABLES
    tasks,       \* the task table: task_id -> Task row
    goals,       \* the goal table: goal_id -> Goal row
    nextTaskId,  \* the serial the store assigns to the next task
    nextGoalId,  \* the serial the store assigns to the next goal
    req,         \* the request being answered (op = "none" when idle)
    resp,        \* its response: status and body
    effects,     \* what the handler did, in program order: commits, Notifier calls
    prev,        \* history: the task the previous request marked complete, if any
    lastLink     \* history: task_id -> goal of the last successful link naming it

vars == <<tasks, goals, nextTaskId, nextGoalId, req, resp, effects, prev, lastLink>>
store == <<tasks, goals, nextTaskId, nextGoalId>>

----------------------------------------------------------------------------
(* Bounds and input domains *)

MaxTasks == 2     \* tasks ever created
MaxGoals == 2     \* goals ever created
MaxTaskIds == 2   \* longest task_ids list of a link request

\* A nullable value: NULL, or Some(x).
NULL == <<>>
Some(x) == <<x>>

\* A key of a JSON body: ABSENT, or Present(value).
ABSENT == <<>>
Present(v) == <<v>>
Has(body, key) == body[key] # ABSENT
Val(body, key) == body[key][1]

\* Titles are strings, here sequences of character codes.
Titles == {<<1, 2>>, <<2>>}
Descriptions == {"d1"}
Times == {"t1"}
SortTokens == {NULL, Some("asc"), Some("desc"), Some("up")}
SlackOutcomes == {"ok", "rejected", "raises"}

\* Identifier texts, as sequences of characters.
DigitChars == <<"0", "1", "2", "3", "4", "5", "6", "7", "8", "9">>
Dec(n) == <<DigitChars[n + 1]>>
MaxId == IF MaxTasks > MaxGoals THEN MaxTasks ELSE MaxGoals
NumericTexts == {Dec(n) : n \in 1..(MaxId + 1)}
OddTexts == {<<"x">>, <<"1", "x">>, <<"-", "1">>, <<" ", "1">>, <<"0", "2">>}
AllIds == NumericTexts \cup OddTexts
SomeIds == NumericTexts \cup {<<"x">>}

----------------------------------------------------------------------------
(* Helper functions *)

\* Python's int() on an identifier text: surrounding blanks are stripped, one
\* sign is allowed, and the rest must be a non-empty run of decimal digits.
IsDigit(c) == \E i \in 1..Len(DigitChars) : DigitChars[i] = c
DigitVal(c) == (CHOOSE i \in 1..Len(DigitChars) : DigitChars[i] = c) - 1

RECURSIVE Strip(_)
Strip(s) ==
    IF s = <<>> THEN s
    ELSE IF s[1] = " " THEN Strip(Tail(s))
    ELSE IF s[Len(s)] = " " THEN Strip(SubSeq(s, 1, Len(s) - 1))
    ELSE s

RECURSIVE DigitsVal(_)
DigitsVal(s) ==
    IF s = <<>> THEN 0
    ELSE Len(DigitChars) * DigitsVal(SubSeq(s, 1, Len(s) - 1)) + DigitVal(s[Len(s)])

int(text) ==
    LET t == Strip(text)
        signed == t # <<>> /\ t[1] \in {"-", "+"}
        digits == IF signed THEN Tail(t) ELSE t
        n == DigitsVal(digits)
    IN  IF digits # <<>> /\ \A i \in 1..Len(digits) : IsDigit(digits[i])
        THEN [ok |-> TRUE, val |-> IF signed /\ t[1] = "-" THEN 0 - n ELSE n]
        ELSE [ok |-> FALSE, val |-> 0]

\* A resolver that reports every failure as "not found".
validate_object_always_404(object_id, object_type) ==
    LET parsed == int(object_id)
        table == IF object_type = "task" THEN tasks ELSE goals
    IN  IF ~parsed.ok \/ parsed.val \notin DOMAIN table
        THEN [aborted |-> TRUE, status |-> 404, id |-> parsed.val,
              body |-> [message |-> <<"Object", object_id, "not found">>]]
        ELSE [aborted |-> FALSE, status |-> 200, id |-> parsed.val,
              body |-> [message |-> <<>>]]

\* validate_object: the object fetched from the database, or the abort it
\* raises (400 when int() fails, 404 when the query finds no row).
validate_object(object_id, object_type) ==
    LET parsed == int(object_id)
        table == IF object_type = "task" THEN tasks ELSE goals
    IN  IF ~parsed.ok
        THEN [aborted |-> TRUE, status |-> 400, id |-> 0,
              body |-> [message |-> <<"Object", object_id, "invalid">>]]
        ELSE IF parsed.val \notin DOMAIN table
        THEN [aborted |-> TRUE, status |-> 404, id |-> parsed.val,
              body |-> [message |-> <<"Object", parsed.val, "not found">>]]
        ELSE [aborted |-> FALSE, status |-> 200, id |-> parsed.val,
              body |-> [message |-> <<>>]]

\* post_to_slack: one requests.post to the chat webhook.  The call returns
\* whatever the service answers ("ok", "rejected") and raises when the
\* service cannot be reached; nothing in the function catches that.
post_to_slack(title, outcome) ==
    [event  |-> [e |-> "slack", channel |-> "task-list",
                 text |-> <<"Someone just completed the task", title>>],
     raised |-> outcome = "raises"]

\* The order of two titles under ORDER BY title.
LexLeq(a, b) ==
    \E k \in 0..(IF Len(a) < Len(b) THEN Len(a) ELSE Len(b)) :
        /\ \A i \in 1..k : a[i] = b[i]
        /\ \/ k = Len(a)
           \/ k < Len(b) /\ a[k + 1] < b[k + 1]

\* Every arrangement of the rows of a table as a sequence.
Arrangements(table) ==
    LET ids == DOMAIN table
        n == Cardinality(ids)
    IN  {[i \in 1..n |-> table[f[i]]] :
            f \in {g \in [1..n -> ids] : \A i, j \in 1..n : g[i] = g[j] => i = j}}

Ascending(rows) == \A i \in 1..(Len(rows) - 1) : LexLeq(rows[i].title, rows[i + 1].title)
Descending(rows) == \A i \in 1..(Len(rows) - 1) : LexLeq(rows[i + 1].title, rows[i].title)

\* A selector with the two directions exchanged.
ordered_tasks_query_swapped(sort_method) ==
    IF sort_method = Some("asc") THEN {rows \in Arrangements(tasks) : Descending(rows)}
    ELSE IF sort_method = Some("desc") THEN {rows \in Arrangements(tasks) : Ascending(rows)}
    ELSE Arrangements(tasks)

\* ordered_tasks_query: the row sequences the query may return.  "asc" and
\* "desc" add ORDER BY title (rows with equal titles come in any order); any
\* other value runs Task.query.all(), a SELECT with no ORDER BY, whose row
\* order the database does not fix.
ordered_tasks_query(sort_method) ==
    IF sort_method = Some("asc") THEN {rows \in Arrangements(tasks) : Ascending(rows)}
    ELSE IF sort_method = Some("desc") THEN {rows \in Arrangements(tasks) : Descending(rows)}
    ELSE Arrangements(tasks)

ordered_goals_query(sort_method) ==
    IF sort_method = Some("asc") THEN {rows \in Arrangements(goals) : Ascending(rows)}
    ELSE IF sort_method = Some("desc") THEN {rows \in Arrangements(goals) : Descending(rows)}
    ELSE Arrangements(goals)

\* Task.to_dict, Goal.to_dict and Goal.to_dict_advanced (app/models).
task_to_dict(task) ==
    IF task.goal_id = NULL
    THEN [id |-> task.task_id, title |-> task.title, description |-> task.description,
          is_complete |-> task.completed_at # NULL]
    ELSE [id |-> task.task_id, title |-> task.title, description |-> task.description,
          is_complete |-> task.completed_at # NULL, goal_id |-> task.goal_id[1]]

goal_to_dict(goal) == [id |-> goal.goal_id, title |-> goal.title]

RECURSIVE InIdOrder(_, _)
InIdOrder(table, ids) ==
    IF ids = {} THEN <<>>
    ELSE LET m == CHOOSE i \in ids : \A j \in ids : i <= j
         IN  <<table[m]>> \o InIdOrder(table, ids \ {m})

goal_to_dict_advanced(goal) ==
    LET owned == {t \in DOMAIN tasks : tasks[t].goal_id = Some(goal.goal_id)}
        rows == InIdOrder(tasks, owned)
    IN  [id |-> goal.goal_id, title |-> goal.title,
         tasks |-> [i \in 1..Len(rows) |-> task_to_dict(rows[i])]]

\* Goal deletion as the Goal model configures it: the tasks of the deleted
\* goal are neither deleted nor changed.
tasks_after_goal_delete(goal_id) == tasks

----------------------------------------------------------------------------
(* Requests and responses *)

NoRequest == [op |-> "none"]
NoResponse == [status |-> 0, body |-> <<>>]
Idle == req.op = "none"

Commit == [e |-> "commit"]

\* abort(make_response(body, status)) and Flask's answer to an exception no
\* handler catches.
AbortResponse(status, body) == [status |-> status, body |-> body]
InvalidData == AbortResponse(400, [details |-> "Invalid data"])
InternalServerError == [status |-> 500, body |-> <<>>]

TaskBodies ==
    [title : {ABSENT} \cup {Present(t) : t \in Titles},
     description : {ABSENT} \cup {Present(d) : d \in Descriptions},
     completed_at : {ABSENT, Present(NULL)} \cup {Present(Some(t)) : t \in Times}]

GoalBodies == [title : {ABSENT} \cup {Present(t) : t \in Titles}]

RECURSIVE SeqsUpTo(_, _)
SeqsUpTo(S, n) ==
    IF n = 0 THEN {<<>>}
    ELSE LET shorter == SeqsUpTo(S, n - 1)
         IN  shorter \cup {Append(q, x) : q \in shorter, x \in S}

LinkBodies == [task_ids : {ABSENT} \cup {Present(ids) : ids \in SeqsUpTo(SomeIds, MaxTaskIds)}]

----------------------------------------------------------------------------
(* Task endpoints *)

get_tasks(sort) ==
    /\ Idle
    /\ req' = [op |-> "get_tasks", sort |-> sort]
    /\ \E rows \in ordered_tasks_query(sort) :
           resp' = [status |-> 200,
                    body |-> [i \in 1..Len(rows) |-> task_to_dict(rows[i])]]
    /\ effects' = <<>>
    /\ UNCHANGED <<store, prev, lastLink>>

post_task(request_body) ==
    /\ Idle
    /\ req' = [op |-> "post_task", body |-> request_body]
    /\ IF Has(request_body, "title") /\ Has(request_body, "description")
       THEN /\ nextTaskId <= MaxTasks
            /\ LET new_task ==
                       [task_id |-> nextTaskId,
                        title |-> Val(request_body, "title"),
                        description |-> Val(request_body, "description"),
                        completed_at |-> IF Has(request_body, "completed_at")
                                         THEN Val(request_body, "completed_at")
                                         ELSE NULL,
                        goal_id |-> NULL]
               IN  /\ tasks' = tasks @@ (nextTaskId :> new_task)
                   /\ resp' = [status |-> 201, body |-> [task |-> task_to_dict(new_task)]]
            /\ nextTaskId' = nextTaskId + 1
            /\ lastLink' = lastLink @@ (nextTaskId :> NULL)
            /\ effects' = <<Commit>>
            /\ UNCHANGED <<goals, nextGoalId, prev>>
       ELSE /\ resp' = InvalidData
            /\ effects' = <<>>
            /\ UNCHANGED <<store, prev, lastLink>>

get_one_task(task_id) ==
    LET found == validate_object(task_id, "task")
    IN  /\ Idle
        /\ req' = [op |-> "get_one_task", id |-> task_id]
        /\ resp' = IF found.aborted THEN AbortResponse(found.status, found.body)
                   ELSE [status |-> 200, body |-> [task |-> task_to_dict(tasks[found.id])]]
        /\ effects' = <<>>
        /\ UNCHANGED <<store, prev, lastLink>>

\* An update that rebuilds the task and so drops its goal.
updated_task_clearing_goal(task, request_body) ==
    [task EXCEPT
        !.title = Val(request_body, "title"),
        !.description = Val(request_body, "description"),
        !.goal_id = NULL]

\* The assignments of update_task to the fetched task.
updated_task(task, request_body) ==
    [task EXCEPT
        !.title = Val(request_body, "title"),
        !.description = Val(request_body, "description"),
        !.completed_at = IF Has(request_body, "completed_at")
                         THEN Val(request_body, "completed_at")
                         ELSE @]

update_task(task_id, request_body) ==
    LET found == validate_object(task_id, "task")
    IN  /\ Idle
        /\ req' = [op |-> "update_task", id |-> task_id, body |-> request_body]
        /\ IF found.aborted
           THEN /\ resp' = AbortResponse(found.status, found.body)
                /\ effects' = <<>>
                /\ UNCHANGED tasks
           ELSE IF Has(request_body, "title") /\ Has(request_body, "description")
           THEN LET task == updated_task(tasks[found.id], request_body)
                IN  /\ tasks' = [tasks EXCEPT ![found.id] = task]
                    /\ resp' = [status |-> 200, body |-> [task |-> task_to_dict(task)]]
                    /\ effects' = <<Commit>>
           ELSE /\ resp' = InvalidData
                /\ effects' = <<>>
                /\ UNCHANGED tasks
        /\ UNCHANGED <<goals, nextTaskId, nextGoalId, prev, lastLink>>

delete_task(task_id) ==
    LET found == validate_object(task_id, "task")
    IN  /\ Idle
        /\ req' = [op |-> "delete_task", id |-> task_id]
        /\ IF found.aborted
           THEN /\ resp' = AbortResponse(found.status, found.body)
                /\ effects' = <<>>
                /\ UNCHANGED <<tasks, lastLink>>
           ELSE /\ tasks' = [t \in DOMAIN tasks \ {found.id} |-> tasks[t]]
                /\ lastLink' = [t \in DOMAIN lastLink \ {found.id} |-> lastLink[t]]
                /\ resp' = [status |-> 200,
                            body |-> [details |-> <<"Task", found.id, tasks[found.id].title,
                                                    "successfully deleted">>]]
                /\ effects' = <<Commit>>
        /\ UNCHANGED <<goals, nextTaskId, nextGoalId, prev>>

\* A completion that calls the Notifier before it commits.
completed_notifying_first(task, now, outcome) ==
    LET done == [task EXCEPT !.completed_at = Some(now)]
        slack == post_to_slack(done.title, outcome)
    IN  [task |-> IF slack.raised THEN task ELSE done,
         effects |-> IF slack.raised THEN <<slack.event>> ELSE <<slack.event, Commit>>,
         raised |-> slack.raised]

\* complete_task once the task is fetched: the assignment, the commit and
\* the Notifier call, in program order.
completed(task, now, outcome) ==
    LET done == [task EXCEPT !.completed_at = Some(now)]
        slack == post_to_slack(done.title, outcome)
    IN  [task |-> done, effects |-> <<Commit, slack.event>>, raised |-> slack.raised]

complete_task(task_id, now, outcome) ==
    LET found == validate_object(task_id, "task")
    IN  /\ Idle
        /\ req' = [op |-> "complete_task", id |-> task_id]
        /\ IF found.aborted
           THEN /\ resp' = AbortResponse(found.status, found.body)
                /\ effects' = <<>>
                /\ UNCHANGED tasks
           ELSE LET run == completed(tasks[found.id], now, outcome)
                IN  /\ tasks' = [tasks EXCEPT ![found.id] = run.task]
                    /\ effects' = run.effects
                    /\ resp' = IF run.raised THEN InternalServerError
                               ELSE [status |-> 200, body |-> [task |-> task_to_dict(run.task)]]
        /\ UNCHANGED <<goals, nextTaskId, nextGoalId, prev, lastLink>>

\* A mark-incomplete that leaves the task as it is.
marked_incomplete_skipped(task) == task

\* The assignment of incomplete_task to the fetched task.
marked_incomplete(task) == [task EXCEPT !.completed_at = NULL]

incomplete_task(task_id) ==
    LET found == validate_object(task_id, "task")
    IN  /\ Idle
        /\ req' = [op |-> "incomplete_task", id |-> task_id]
        /\ IF found.aborted
           THEN /\ resp' = AbortResponse(found.status, found.body)
                /\ effects' = <<>>
                /\ UNCHANGED tasks
           ELSE LET task == marked_incomplete(tasks[found.id])
                IN  /\ tasks' = [tasks EXCEPT ![found.id] = task]
                    /\ effects' = <<Commit>>
                    /\ resp' = [status |-> 200, body |-> [task |-> task_to_dict(task)]]
        /\ UNCHANGED <<goals, nextTaskId, nextGoalId, prev, lastLink>>

----------------------------------------------------------------------------
(* Goal endpoints *)

get_goals(sort) ==
    /\ Idle
    /\ req' = [op |-> "get_goals", sort |-> sort]
    /\ \E rows \in ordered_goals_query(sort) :
           resp' = [status |-> 200,
                    body |-> [i \in 1..Len(rows) |-> goal_to_dict(rows[i])]]
    /\ effects' = <<>>
    /\ UNCHANGED <<store, prev, lastLink>>

post_goal(request_body) ==
    /\ Idle
    /\ req' = [op |-> "post_goal", body |-> request_body]
    /\ IF Has(request_body, "title")
       THEN /\ nextGoalId <= MaxGoals
            /\ LET new_goal == [goal_id |-> nextGoalId, title |-> Val(request_body, "title")]
               IN  /\ goals' = goals @@ (nextGoalId :> new_goal)
                   /\ resp' = [status |-> 201, body |-> [goal |-> goal_to_dict(new_goal)]]
            /\ nextGoalId' = nextGoalId + 1
            /\ effects' = <<Commit>>
            /\ UNCHANGED <<tasks, nextTaskId, prev, lastLink>>
       ELSE /\ resp' = InvalidData
            /\ effects' = <<>>
            /\ UNCHANGED <<store, prev, lastLink>>

get_one_goal(goal_id) ==
    LET found == validate_object(goal_id, "goal")
    IN  /\ Idle
        /\ req' = [op |-> "get_one_goal", id |-> goal_id]
        /\ resp' = IF found.aborted THEN AbortResponse(found.status, found.body)
                   ELSE [status |-> 200, body |-> [goal |-> goal_to_dict(goals[found.id])]]
        /\ effects' = <<>>
        /\ UNCHANGED <<store, prev, lastLink>>

update_goal(goal_id, request_body) ==
    LET found == validate_object(goal_id, "goal")
    IN  /\ Idle
        /\ req' = [op |-> "update_goal", id |-> goal_id, body |-> request_body]
        /\ IF found.aborted
           THEN /\ resp' = AbortResponse(found.status, found.body)
                /\ effects' = <<>>
                /\ UNCHANGED goals
           ELSE IF Has(request_body, "title")
           THEN LET goal == [goals[found.id] EXCEPT !.title = Val(request_body, "title")]
                IN  /\ goals' = [goals EXCEPT ![found.id] = goal]
                    /\ resp' = [status |-> 200, body |-> [goal |-> goal_to_dict(goal)]]
                    /\ effects' = <<Commit>>
           ELSE /\ resp' = InvalidData
                /\ effects' = <<>>
                /\ UNCHANGED goals
        /\ UNCHANGED <<tasks, nextTaskId, nextGoalId, prev, lastLink>>

\* A goal deletion that also deletes the goal's tasks.
delete_goal_cascading(goal_id) ==
    LET found == validate_object(goal_id, "goal")
    IN  /\ Idle
        /\ req' = [op |-> "delete_goal", id |-> goal_id]
        /\ IF found.aborted
           THEN /\ resp' = AbortResponse(found.status, found.body)
                /\ effects' = <<>>
                /\ UNCHANGED <<tasks, goals, lastLink>>
           ELSE LET kept == {t \in DOMAIN tasks : tasks[t].goal_id # Some(found.id)}
                IN  /\ goals' = [g \in DOMAIN goals \ {found.id} |-> goals[g]]
                    /\ tasks' = [t \in kept |-> tasks[t]]
                    /\ lastLink' = [t \in kept |-> lastLink[t]]
                    /\ resp' = [status |-> 200,
                                body |-> [details |-> <<"Goal", found.id,
                                                        goals[found.id].title,
                                                        "successfully deleted">>]]
                    /\ effects' = <<Commit>>
        /\ UNCHANGED <<nextTaskId, nextGoalId, prev>>

delete_goal(goal_id) ==
    LET found == validate_object(goal_id, "goal")
    IN  /\ Idle
        /\ req' = [op |-> "delete_goal", id |-> goal_id]
        /\ IF found.aborted
           THEN /\ resp' = AbortResponse(found.status, found.body)
                /\ effects' = <<>>
                /\ UNCHANGED <<tasks, goals>>
           ELSE /\ goals' = [g \in DOMAIN goals \ {found.id} |-> goals[g]]
                /\ tasks' = tasks_after_goal_delete(found.id)
                /\ resp' = [status |-> 200,
                            body |-> [details |-> <<"Goal", found.id, goals[found.id].title,
                                                    "successfully deleted">>]]
                /\ effects' = <<Commit>>
        /\ UNCHANGED <<nextTaskId, nextGoalId, prev, lastLink>>

\* A linking that validates, links and commits one id at a time.
RECURSIVE linked_as_validated(_, _)
linked_as_validated(task_ids, gid) ==
    IF task_ids = <<>>
    THEN [aborted |-> FALSE, status |-> 200, body |-> <<>>, tasks |-> tasks, ids |-> <<>>]
    ELSE LET n == Len(task_ids)
             before == linked_as_validated(SubSeq(task_ids, 1, n - 1), gid)
             found == validate_object(task_ids[n], "task")
         IN  IF before.aborted THEN before
             ELSE IF found.aborted
             THEN [before EXCEPT !.aborted = TRUE, !.status = found.status,
                                 !.body = found.body, !.ids = <<>>]
             ELSE [before EXCEPT
                      !.tasks = [before.tasks EXCEPT ![found.id].goal_id = Some(gid)],
                      !.ids = Append(before.ids, found.id)]

\* The body of post_tasks_to_goal after task_ids is read: every id is
\* validated first (the first failure aborts), then every task found gets the
\* goal's id, then one commit.
linked(task_ids, gid) ==
    LET found == [i \in 1..Len(task_ids) |-> validate_object(task_ids[i], "task")]
        failed == {i \in 1..Len(task_ids) : found[i].aborted}
        first == CHOOSE i \in failed : \A j \in failed : i <= j
        chosen == {found[i].id : i \in 1..Len(task_ids)}
    IN  IF failed # {}
        THEN [aborted |-> TRUE, status |-> found[first].status, body |-> found[first].body,
              tasks |-> tasks, ids |-> <<>>]
        ELSE [aborted |-> FALSE, status |-> 200, body |-> <<>>,
              tasks |-> [t \in DOMAIN tasks |->
                            IF t \in chosen THEN [tasks[t] EXCEPT !.goal_id = Some(gid)]
                            ELSE tasks[t]],
              ids |-> [i \in 1..Len(task_ids) |-> found[i].id]]

\* request_body["task_ids"] raises KeyError when the key is absent; the
\* except clause names ValueError, so the KeyError leaves the handler.
post_tasks_to_goal(goal_id, request_body) ==
    LET goal == validate_object(goal_id, "goal")
    IN  /\ Idle
        /\ req' = [op |-> "post_tasks_to_goal", id |-> goal_id, body |-> request_body]
        /\ IF goal.aborted
           THEN /\ resp' = AbortResponse(goal.status, goal.body)
                /\ effects' = <<>>
                /\ UNCHANGED <<tasks, lastLink>>
           ELSE IF ~Has(request_body, "task_ids")
           THEN /\ resp' = InternalServerError
                /\ effects' = <<>>
                /\ UNCHANGED <<tasks, lastLink>>
           ELSE LET gid == int(goal_id).val
                    run == linked(Val(request_body, "task_ids"), gid)
                IN  /\ tasks' = run.tasks
                    /\ IF run.aborted
                       THEN /\ resp' = AbortResponse(run.status, run.body)
                            /\ effects' = <<>>
                            /\ UNCHANGED lastLink
                       ELSE /\ resp' = [status |-> 200,
                                        body |-> [id |-> gid, task_ids |-> run.ids]]
                            /\ effects' = <<Commit>>
                            /\ lastLink' = [t \in DOMAIN lastLink |->
                                              IF \E i \in 1..Len(run.ids) : run.ids[i] = t
                                              THEN Some(gid)
                                              ELSE lastLink[t]]
        /\ UNCHANGED <<goals, nextTaskId, nextGoalId, prev>>

get_tasks_from_goal(goal_id) ==
    LET found == validate_object(goal_id, "goal")
    IN  /\ Idle
        /\ req' = [op |-> "get_tasks_from_goal", id |-> goal_id]
        /\ resp' = IF found.aborted THEN AbortResponse(found.status, found.body)
                   ELSE [status |-> 200, body |-> goal_to_dict_advanced(goals[found.id])]
        /\ effects' = <<>>
        /\ UNCHANGED <<store, prev, lastLink>>

----------------------------------------------------------------------------
(* The server *)

\* The response leaves and the server waits for the next request.
Respond ==
    /\ ~Idle
    /\ prev' = IF req.op = "complete_task" /\ ~validate_object(req.id, "task").aborted
               THEN Some(int(req.id).val)
               ELSE NULL
    /\ req' = NoRequest
    /\ resp' = NoResponse
    /\ effects' = <<>>
    /\ UNCHANGED <<store, lastLink>>

Init ==
    /\ tasks = <<>>
    /\ goals = <<>>
    /\ nextTaskId = 1
    /\ nextGoalId = 1
    /\ req = NoRequest
    /\ resp = NoResponse
    /\ effects = <<>>
    /\ prev = NULL
    /\ lastLink = <<>>

Next ==
    \/ \E sort \in SortTokens : get_tasks(sort)
    \/ \E body \in TaskBodies : post_task(body)
    \/ \E id \in AllIds : get_one_task(id)
    \/ \E id \in SomeIds, body \in TaskBodies : update_task(id, body)
    \/ \E id \in SomeIds : delete_task(id)
    \/ \E id \in SomeIds, now \in Times, outcome \in SlackOutcomes : complete_task(id, now, outcome)
    \/ \E id \in SomeIds : incomplete_task(id)
    \/ \E sort \in SortTokens : get_goals(sort)
    \/ \E body \in GoalBodies : post_goal(body)
    \/ \E id \in AllIds : get_one_goal(id)
    \/ \E id \in SomeIds, body \in GoalBodies : update_goal(id, body)
    \/ \E id \in SomeIds : delete_goal(id)
    \/ \E id \in SomeIds, body \in LinkBodies : post_tasks_to_goal(id, body)
    \/ \E id \in SomeIds : get_tasks_from_goal(id)
    \/ Respond

Spec == Init /\ [][Next]_vars

----------------------------------------------------------------------------
(* Properties *)

\* A step in which a handler answers a request with operation op.
Handles(ops) == Idle /\ req'.op \in ops
Resolves(object_id, object_type) == ~validate_object(object_id, object_type).aborted
IsError(status) == status \notin {200, 201}

\* C1: a link request on an existing goal whose task_ids holds an id that is
\* malformed or names no task is answered with an error (400 or 404) and no
\* task, the valid ones earlier in the list included, has its goal_id changed.
C1_LinkAllOrNothing ==
    [][(/\ Handles({"post_tasks_to_goal"})
        /\ Resolves(req'.id, "goal")
        /\ Has(req'.body, "task_ids")
        /\ \E i \in 1..Len(Val(req'.body, "task_ids")) :
               ~Resolves(Val(req'.body, "task_ids")[i], "task"))
       => (resp'.status \in {400, 404} /\ tasks' = tasks)]_vars

\* A link request naming an existing, unlinked task and then a missing one
\* was refused.
C1_Witness ==
    /\ req.op = "post_tasks_to_goal"
    /\ Resolves(req.id, "goal")
    /\ Has(req.body, "task_ids")
    /\ Len(Val(req.body, "task_ids")) = 2
    /\ Resolves(Val(req.body, "task_ids")[1], "task")
    /\ ~Resolves(Val(req.body, "task_ids")[2], "task")
    /\ tasks[int(Val(req.body, "task_ids")[1]).val].goal_id = NULL
    /\ resp.status = 404

\* C2: a link request on an existing goal whose body has no task_ids field
\* is answered 400 and changes no task's goal_id.
C2_MissingTaskIdsIs400 ==
    [][(/\ Handles({"post_tasks_to_goal"})
        /\ Resolves(req'.id, "goal")
        /\ ~Has(req'.body, "task_ids"))
       => (resp'.status = 400 /\ tasks' = tasks)]_vars

\* C3: mark-complete on an existing task answers 200 with is_complete true,
\* whatever the Notifier call does.
C3_CompleteAlways200 ==
    (req.op = "complete_task" /\ Resolves(req.id, "task"))
        => (resp.status = 200 /\ resp.body.task.is_complete)

\* C4: every request is answered 2xx, or with an error and the tasks and
\* goals exactly as they were before it.
C4_NoPartialSuccess ==
    [][(Idle /\ ~Idle')
       => (~IsError(resp'.status) \/ <<tasks, goals>>' = <<tasks, goals>>)]_vars

\* The outcome of resolving (object_id, object_type) in the current store is
\* the one its integer reading and the table of that kind call for.
C5_Classified(object_id, object_type) ==
    LET found == validate_object(object_id, object_type)
        parsed == int(object_id)
        table == IF object_type = "task" THEN tasks ELSE goals
        key == IF object_type = "task" THEN "task_id" ELSE "goal_id"
        letters == \E i \in 1..Len(object_id) :
                       ~IsDigit(object_id[i]) /\ object_id[i] \notin {" ", "-", "+"}
    IN  /\ found.status \in {200, 400, 404}
        /\ found.aborted <=> found.status # 200
        /\ letters => found.status = 400
        /\ found.status = 400 <=> ~parsed.ok
        /\ found.status = 404 <=> (parsed.ok /\ parsed.val \notin DOMAIN table)
        /\ found.status = 200 =>
               /\ found.id = parsed.val
               /\ found.id \in DOMAIN table
               /\ table[found.id][key] = found.id

\* C5: resolving (identifier, kind) has exactly one of three outcomes, decided
\* by the identifier and the table of that kind alone: 400 when the
\* identifier is no integer (never 404), 404 when it is an integer with no
\* row, else the row with that id; and a request that only resolves leaves
\* the store unchanged.
C5_ResolverClassifies ==
    /\ [](Idle => \A object_id \in AllIds, object_type \in {"task", "goal"} :
                      C5_Classified(object_id, object_type))
    /\ [][Handles({"get_one_task", "get_one_goal"})
          => LET object_type == IF req'.op = "get_one_task" THEN "task" ELSE "goal"
                 found == validate_object(req'.id, object_type)
             IN  /\ store' = store
                 /\ resp'.status = found.status
                 /\ found.status = 200 =>
                        IF object_type = "task"
                        THEN resp'.body.task = task_to_dict(tasks[found.id])
                        ELSE resp'.body.goal = goal_to_dict(goals[found.id])]_vars

\* A lookup of goal "1" answered 404 while a task 1 exists: the kind decides.
C5_Witness ==
    /\ req.op = "get_one_goal"
    /\ req.id = Dec(1)
    /\ resp.status = 404
    /\ 1 \in DOMAIN tasks

\* C6: mark-incomplete on an existing task, in whatever completion state and
\* in particular right after a mark-complete of that task, answers
\* is_complete false and leaves completed_at null and everything else as it
\* was; mark-complete changes nothing but that task's completed_at.  So the
\* pair ends in the same state however often it is repeated.
C6_CompleteThenIncomplete ==
    [][/\ (Handles({"incomplete_task"}) /\ Resolves(req'.id, "task"))
          => LET t == int(req'.id).val
             IN  /\ resp'.status = 200
                 /\ resp'.body.task.is_complete = FALSE
                 /\ tasks'[t].completed_at = NULL
                 /\ tasks' = [tasks EXCEPT ![t].completed_at = NULL]
                 /\ goals' = goals
       /\ (Handles({"complete_task"}) /\ Resolves(req'.id, "task"))
          => LET t == int(req'.id).val
             IN  /\ tasks'[t].completed_at # NULL
                 /\ tasks' = [tasks EXCEPT ![t].completed_at = tasks'[t].completed_at]
                 /\ goals' = goals]_vars

\* Mark-incomplete answered for the task the previous request marked complete.
C6_Witness ==
    /\ req.op = "incomplete_task"
    /\ Resolves(req.id, "task")
    /\ prev = Some(int(req.id).val)
    /\ resp.status = 200
    /\ tasks[int(req.id).val].completed_at = NULL

\* The answer of a list request: the table it lists and the row each entry
\* should render.
C7_Table == IF req'.op = "get_tasks" THEN tasks ELSE goals
C7_Entry(id) ==
    IF req'.op = "get_tasks" THEN task_to_dict(tasks[id]) ELSE goal_to_dict(goals[id])

C7_Sorted ==
    LET out == resp'.body
    IN  /\ store' = store
        /\ resp'.status = 200
        /\ Len(out) = Cardinality(DOMAIN C7_Table)
        /\ \A id \in DOMAIN C7_Table :
               \E i \in 1..Len(out) : out[i].id = id /\ out[i] = C7_Entry(id)
        /\ req'.sort = Some("asc")
               => \A i, j \in 1..Len(out) : i < j => LexLeq(out[i].title, out[j].title)
        /\ req'.sort = Some("desc")
               => \A i, j \in 1..Len(out) : i < j => LexLeq(out[j].title, out[i].title)

\* Ids are assigned in insertion order.
C7_InInsertionOrder ==
    LET out == resp'.body
    IN  \A i, j \in 1..Len(out) : i < j => out[i].id < out[j].id

\* C7 (as amended): both list endpoints return exactly the stored entities of
\* their kind and leave the store unchanged; with sort=asc the titles are
\* non-decreasing and with sort=desc non-increasing.  With any other sort
\* token the order is whatever the store returns.
C7_ListSorted == [][Handles({"get_tasks", "get_goals"}) => C7_Sorted]_vars

\* C7 (as claimed): as above, and with an absent or any other sort token the
\* order is the insertion order.
C7_ListInsertionOrder ==
    [][Handles({"get_tasks", "get_goals"})
       => /\ C7_Sorted
          /\ req'.sort \notin {Some("asc"), Some("desc")} => C7_InInsertionOrder]_vars

\* Two tasks with different titles, inserted in descending title order,
\* listed with sort=asc.
C7_Witness ==
    /\ req.op = "get_tasks"
    /\ req.sort = Some("asc")
    /\ Len(resp.body) = 2
    /\ resp.body[1].id > resp.body[2].id
    /\ resp.body[1].title # resp.body[2].title

\* C8: a task's goal_id is null until a successful link request names it and
\* is then the goal of the last such request; task create, update,
\* mark-complete and mark-incomplete change no task's goal_id.
C8_GoalIdOnlyByLinking ==
    /\ [](\A t \in DOMAIN tasks : tasks[t].goal_id = lastLink[t])
    /\ [][Handles({"post_task", "update_task", "complete_task", "incomplete_task"})
          => \A t \in DOMAIN tasks' :
                 tasks'[t].goal_id = IF t \in DOMAIN tasks THEN tasks[t].goal_id ELSE NULL]_vars

\* A task linked to the second goal was then updated and kept that goal.
C8_Witness ==
    /\ req.op = "update_task"
    /\ resp.status = 200
    /\ tasks[int(req.id).val].goal_id = Some(2)
    /\ tasks[int(req.id).val].title = Val(req.body, "title")

\* C9: a successful goal deletion removes that goal's record and nothing
\* else: every task is still there with its id, title, description and
\* completed_at.
C9_GoalDeleteKeepsTasks ==
    [][(Handles({"delete_goal"}) /\ resp'.status = 200)
       => LET g == int(req'.id).val
          IN  /\ g \in DOMAIN goals
              /\ goals' = [h \in DOMAIN goals \ {g} |-> goals[h]]
              /\ DOMAIN tasks' = DOMAIN tasks
              /\ \A t \in DOMAIN tasks :
                     /\ tasks'[t].task_id = tasks[t].task_id
                     /\ tasks'[t].title = tasks[t].title
                     /\ tasks'[t].description = tasks[t].description
                     /\ tasks'[t].completed_at = tasks[t].completed_at]_vars

\* A goal was deleted while a task linked to it exists.
C9_Witness ==
    /\ req.op = "delete_goal"
    /\ resp.status = 200
    /\ \E t \in DOMAIN tasks : tasks[t].goal_id = Some(int(req.id).val)

\* C10: a mark-complete on an existing task makes exactly one Notifier
\* attempt, carrying that task's title, after the commit of completed_at; a
\* mark-complete that fails resolution and every other request make none.
C10_Notifications ==
    LET attempts == {i \in 1..Len(effects) : effects[i].e = "slack"}
    IN  IF req.op = "complete_task" /\ Resolves(req.id, "task")
        THEN LET t == int(req.id).val
             IN  /\ Cardinality(attempts) = 1
                 /\ \A i \in attempts :
                        /\ effects[i].text = <<"Someone just completed the task", tasks[t].title>>
                        /\ \E c \in 1..(i - 1) : effects[c] = Commit
                 /\ tasks[t].completed_at # NULL
        ELSE attempts = {}

\* A mark-complete whose Notifier call was rejected by the service.
C10_Witness ==
    /\ req.op = "complete_task"
    /\ resp.status = 200
    /\ Len(effects) = 2
    /\ effects[2].e = "slack"

====
